---- MODULE Spec2Model ----
(***************************************************************************)
(* ManagedSlice<T, A>: a slice bound to the allocator that produced it.    *)
(* The model follows acpi/src/managed_slice.rs: the two constructors, the  *)
(* Drop implementation and the Deref / DerefMut views, over a byte memory  *)
(* shared with a set of allocators.                                        *)
(***************************************************************************)
EXTENDS Integers, Sequences, FiniteSets, TLC

\* ---------------------------------------------------------------- bounds
UsizeBits == 6
MaxHandles == 1
MaxLen == 2
ArenaSize == 4
MaxSlack == 2

\* ---------------------------------------------------------------- machine
RECURSIVE Pow(_, _)
Pow(b, e) == IF e = 0 THEN 1 ELSE b * Pow(b, e - 1)

USizeMax == Pow(2, UsizeBits) - 1
ISizeMax == Pow(2, UsizeBits - 1) - 1
ByteBase == 256
Uninit == -1

Handles == 1..MaxHandles
Allocators == {1, 2}
ArenaBase(a) == 2 + (a - 1) * ArenaSize
Arena(a) == ArenaBase(a)..(ArenaBase(a) + ArenaSize - 1)
Addrs == UNION {Arena(a) : a \in Allocators}

\* ---------------------------------------------------------------- element types
Types == {"unit", "u16"}
SizeOf(T) == CASE T = "unit" -> 0 [] T = "u16" -> 2
AlignOf(T) == CASE T = "unit" -> 1 [] T = "u16" -> 2
ValuesOf(T) == CASE T = "unit" -> {0} [] T = "u16" -> {7, 1801}

Lens == (0..MaxLen) \cup {ISizeMax \div 2, ISizeMax \div 2 + 1}
Indices == (0..MaxLen) \cup {USizeMax}

\* ---------------------------------------------------------------- Layout
NoLayout == [ok |-> FALSE, size |-> 0, align |-> 1]

\* Layout::array with the limit test off by one: the largest legal n is refused
LayoutArrayOffByOne(T, n) ==
    IF SizeOf(T) # 0 /\ n >= (ISizeMax - (AlignOf(T) - 1)) \div SizeOf(T)
    THEN NoLayout
    ELSE [ok |-> TRUE, size |-> n * SizeOf(T), align |-> AlignOf(T)]

\* Layout::array with a wrapping multiplication and no limit test
LayoutArrayWrapping(T, n) ==
    [ok |-> TRUE, size |-> (n * SizeOf(T)) % (USizeMax + 1), align |-> AlignOf(T)]

\* Layout::array::<T>(n): fails when n * size_of::<T>(), rounded up to the
\* alignment, exceeds isize::MAX.
LayoutArray(T, n) ==
    IF SizeOf(T) # 0 /\ n > (ISizeMax - (AlignOf(T) - 1)) \div SizeOf(T)
    THEN NoLayout
    ELSE [ok |-> TRUE, size |-> n * SizeOf(T), align |-> AlignOf(T)]

\* ---------------------------------------------------------------- state
\* handles: one slot per constructor call site; memory and allocator are the
\*          fields of ManagedSlice, the other fields record the call
\* blocks:  the regions each allocator has handed out and not taken back
\* mem:     the bytes of the arenas
\* last:    the operation performed last and what it returned
\* calls:   the allocator calls the last operation made
VARIABLES handles, blocks, mem, last, calls
vars == <<handles, blocks, mem, last, calls>>

NoSlice == [ptr |-> 0, len |-> 0]
NoRegion == [ok |-> FALSE, ptr |-> 0, size |-> 0]

NoHandle ==
    [state |-> "Unconstructed", called |-> FALSE, T |-> "unit", memory |-> NoSlice,
     allocator |-> 0, ctorLen |-> 0, ctorAllocator |-> 0, allocLayout |-> NoLayout,
     region |-> NoRegion, deallocs |-> 0]

Result(kind, val) == [kind |-> kind, val |-> val]
Op(op, h, T, a, i, x, res) ==
    [op |-> op, h |-> h, T |-> T, a |-> a, i |-> i, x |-> x, result |-> res]
Call(fn, a, ptr, layout, ok) ==
    [fn |-> fn, allocator |-> a, ptr |-> ptr, layout |-> layout, ok |-> ok]

Init ==
    /\ handles = [h \in Handles |-> NoHandle]
    /\ blocks = [a \in Allocators |-> {}]
    /\ mem = [p \in Addrs |-> Uninit]
    /\ last = Op("none", 0, "unit", 0, 0, 0, Result("ok", 0))
    /\ calls = <<>>

\* ---------------------------------------------------------------- allocator
\* the addresses of a region
Range(b) == b.ptr..(b.ptr + b.size - 1)
\* the addresses allocator a has handed out
Occupied(a) == UNION {Range(b) : b \in blocks[a]}

\* the sizes a returned region may have: at least the size requested
SizesFor(layout) ==
    IF layout.size = 0 THEN {0} ELSE layout.size..(layout.size + MaxSlack)

\* the aligned address an allocator hands out for a request of size zero
Dangling(a, layout) == CHOOSE p \in Arena(a) : p % layout.align = 0

\* allocator.allocate(layout): failure, or a region of at least layout.size
\* bytes at an address aligned to layout.align.
Allocate(a, layout) ==
    {NoRegion} \cup
    {r \in [ok : {TRUE}, ptr : Arena(a), size : SizesFor(layout)] :
        /\ r.ptr % layout.align = 0
        /\ Range(r) \subseteq Arena(a)
        /\ Range(r) \cap Occupied(a) = {}
        /\ r.size = 0 => r.ptr = Dangling(a, layout)}

\* the allocator's bookkeeping after allocate returned r
AllocatorAfterAllocate(a, r) ==
    IF r.ok /\ r.size > 0
    THEN [blocks EXCEPT ![a] = @ \cup {[ptr |-> r.ptr, size |-> r.size]}]
    ELSE blocks

\* allocator.deallocate(ptr, layout)
Freed(a, ptr, layout) ==
    IF layout.size = 0 THEN {} ELSE {b \in blocks[a] : b.ptr = ptr}

\* the allocator's bookkeeping after deallocate(ptr, layout)
AllocatorAfterDeallocate(a, ptr, layout) ==
    [blocks EXCEPT ![a] = @ \ Freed(a, ptr, layout)]

\* the bytes of a region handed back are indeterminate again
MemAfterDeallocate(a, ptr, layout) ==
    [p \in Addrs |->
        IF \E b \in Freed(a, ptr, layout) : p \in Range(b) THEN Uninit ELSE mem[p]]

\* ---------------------------------------------------------------- slices
\* a slice whose length is taken from the size of the region returned
SliceFromRegionSize(region, T, len) ==
    [ptr |-> region.ptr, len |-> IF SizeOf(T) = 0 THEN len ELSE region.size \div SizeOf(T)]

\* NonNull::slice_from_raw_parts(ptr.as_non_null_ptr().cast(), len)
SliceFromRawParts(region, T, len) == [ptr |-> region.ptr, len |-> len]

\* the bytes of a value of type T, least significant first
Encode(T, v) == [k \in 0..(SizeOf(T) - 1) |-> (v \div Pow(ByteBase, k)) % ByteBase]

RECURSIVE DecodeFrom(_, _, _, _)
DecodeFrom(m, p, k, n) ==
    IF k = n THEN 0 ELSE m[p + k] * Pow(ByteBase, k) + DecodeFrom(m, p, k + 1, n)

\* the value of type T stored at address p; Uninit if a byte was never written
Decode(m, T, p) ==
    IF \E k \in 0..(SizeOf(T) - 1) : m[p + k] = Uninit
    THEN Uninit
    ELSE DecodeFrom(m, p, 0, SizeOf(T))

\* the address of element i of a slice of T
ElemAddr(slice, T, i) == slice.ptr + i * SizeOf(T)

\* a store that writes only the first byte of the value
StoreLowByte(m, T, p, v) ==
    [q \in Addrs |-> IF SizeOf(T) > 0 /\ q = p THEN Encode(T, v)[0] ELSE m[q]]

\* *ptr = v for a value of type T at address p
Store(m, T, p, v) ==
    [q \in Addrs |-> IF q \in p..(p + SizeOf(T) - 1) THEN Encode(T, v)[q - p] ELSE m[q]]

\* a fill that stops one element short
FillAllButLast(m, slice, T, v) ==
    [q \in Addrs |->
        IF SizeOf(T) > 0 /\ q \in slice.ptr..(slice.ptr + (slice.len - 1) * SizeOf(T) - 1)
        THEN Encode(T, v)[(q - slice.ptr) % SizeOf(T)]
        ELSE m[q]]

\* memory.as_uninit_slice_mut().fill(MaybeUninit::new(value))
Fill(m, slice, T, v) ==
    [q \in Addrs |->
        IF SizeOf(T) > 0 /\ q \in slice.ptr..(slice.ptr + slice.len * SizeOf(T) - 1)
        THEN Encode(T, v)[(q - slice.ptr) % SizeOf(T)]
        ELSE m[q]]

\* Deref::deref / DerefMut::deref_mut: the slice the handle points to
Deref(h) == handles[h].memory
DerefMut(h) == handles[h].memory

\* slice[i] on the view: bounds-checked against the slice's length
Index(m, slice, T, i) ==
    IF i < slice.len THEN Result("ok", Decode(m, T, ElemAddr(slice, T, i)))
    ELSE Result("panic", 0)

\* an indexed assignment that accepts i = len
IndexMutOffByOne(m, slice, T, i, x) ==
    IF i <= slice.len
    THEN [res |-> Result("ok", x), mem |-> Store(m, T, ElemAddr(slice, T, i), x)]
    ELSE [res |-> Result("panic", 0), mem |-> m]

\* slice[i] = x on the mutable view
IndexMut(m, slice, T, i, x) ==
    IF i < slice.len
    THEN [res |-> Result("ok", x), mem |-> Store(m, T, ElemAddr(slice, T, i), x)]
    ELSE [res |-> Result("panic", 0), mem |-> m]

\* ---------------------------------------------------------------- constructors
\* a constructor that builds the handle whether or not allocate succeeded
ManagedSliceOrDangling(r, T, len, a) ==
    [ok |-> TRUE, memory |-> SliceFromRawParts(r, T, len), allocator |-> a]

\* allocate(layout).map(|ptr| ManagedSlice { memory, allocator }): a handle
\* exists only when allocate returned a region
ManagedSliceFrom(r, T, len, a) ==
    IF r.ok
    THEN [ok |-> TRUE, memory |-> SliceFromRawParts(r, T, len), allocator |-> a]
    ELSE [ok |-> FALSE, memory |-> NoSlice, allocator |-> 0]

CtorResult(ok) == IF ok THEN Result("ok", 0) ELSE Result("AllocError", 0)

\* the slot after a constructor call that returned Err(AllocError)
Failed == [NoHandle EXCEPT !.called = TRUE]

\* the slot after a constructor call that reached allocate
Constructed(T, len, a, layout, r, made) ==
    IF made.ok
    THEN [NoHandle EXCEPT
            !.state = "Owning", !.called = TRUE, !.T = T,
            !.memory = made.memory, !.allocator = made.allocator,
            !.ctorLen = len, !.ctorAllocator = a, !.allocLayout = layout, !.region = r]
    ELSE Failed

\* ManagedSlice::<T, A>::new_uninit_in(len, allocator); the handle's element
\* type MaybeUninit<T> has the size and alignment of T
NewUninitIn(h, T, len, a) ==
    /\ ~handles[h].called
    /\ LET layout == LayoutArray(T, len)
       IN IF ~layout.ok
          THEN /\ handles' = [handles EXCEPT ![h] = Failed]
               /\ last' = Op("new_uninit_in", h, T, a, len, 0, CtorResult(FALSE))
               /\ calls' = <<>>
               /\ UNCHANGED <<blocks, mem>>
          ELSE \E r \in Allocate(a, layout) :
                 LET made == ManagedSliceFrom(r, T, len, a)
                 IN /\ handles' = [handles EXCEPT ![h] = Constructed(T, len, a, layout, r, made)]
                    /\ blocks' = AllocatorAfterAllocate(a, r)
                    /\ last' = Op("new_uninit_in", h, T, a, len, 0, CtorResult(made.ok))
                    /\ calls' = <<Call("allocate", a, r.ptr, layout, r.ok)>>
                    /\ UNCHANGED mem

\* ManagedSlice::<T, A>::new_in(len, value, allocator)
NewIn(h, T, len, value, a) ==
    /\ ~handles[h].called
    /\ LET layout == LayoutArray(T, len)
       IN IF ~layout.ok
          THEN /\ handles' = [handles EXCEPT ![h] = Failed]
               /\ last' = Op("new_in", h, T, a, len, value, CtorResult(FALSE))
               /\ calls' = <<>>
               /\ UNCHANGED <<blocks, mem>>
          ELSE \E r \in Allocate(a, layout) :
                 LET made == ManagedSliceFrom(r, T, len, a)
                 IN /\ handles' = [handles EXCEPT ![h] = Constructed(T, len, a, layout, r, made)]
                    /\ blocks' = AllocatorAfterAllocate(a, r)
                    /\ mem' = IF made.ok THEN Fill(mem, made.memory, T, value) ELSE mem
                    /\ last' = Op("new_in", h, T, a, len, value, CtorResult(made.ok))
                    /\ calls' = <<Call("allocate", a, r.ptr, layout, r.ok)>>

\* ---------------------------------------------------------------- drop
\* a drop layout of len bytes, whatever the element size
DropLayoutOfBytes(h) ==
    [ok |-> TRUE, size |-> handles[h].memory.len, align |-> AlignOf(handles[h].T)]

\* Layout::array::<T>(self.len())
DropLayout(h) == LayoutArray(handles[h].T, handles[h].memory.len)

\* a drop that skips deallocate for a zero-size layout
DropCallsSkipEmpty(h) ==
    IF DropLayout(h).ok /\ DropLayout(h).size > 0
    THEN <<Call("deallocate", handles[h].allocator, handles[h].memory.ptr, DropLayout(h), TRUE)>>
    ELSE <<>>

\* the allocator calls drop makes: none if the unwrap of the layout panics
DropCalls(h) ==
    IF DropLayout(h).ok
    THEN <<Call("deallocate", handles[h].allocator, handles[h].memory.ptr, DropLayout(h), TRUE)>>
    ELSE <<>>

\* a drop after which the handle is still usable
DroppedStillOwning(slot, cs) == [slot EXCEPT !.deallocs = @ + Len(cs)]

\* the slot after drop(&mut self) has run: the handle and its fields are gone
Dropped(slot, cs) ==
    [NoHandle EXCEPT !.state = "Released", !.called = TRUE, !.deallocs = slot.deallocs + Len(cs)]

\* <ManagedSlice<T, A> as Drop>::drop, run when the handle goes out of scope
Drop(h) ==
    /\ handles[h].state = "Owning"
    /\ LET cs == DropCalls(h)
       IN /\ handles' = [handles EXCEPT ![h] = Dropped(@, cs)]
          /\ IF cs = <<>>
             THEN UNCHANGED <<blocks, mem>>
             ELSE /\ blocks' = AllocatorAfterDeallocate(cs[1].allocator, cs[1].ptr, cs[1].layout)
                  /\ mem' = MemAfterDeallocate(cs[1].allocator, cs[1].ptr, cs[1].layout)
          /\ calls' = cs
          /\ last' = Op("drop", h, handles[h].T, 0, 0, 0,
                        Result(IF DropLayout(h).ok THEN "ok" ELSE "panic", 0))

\* ---------------------------------------------------------------- access
\* handle[i]: Deref::deref, then the slice's bounds-checked index
Read(h, i) ==
    /\ handles[h].state = "Owning"
    /\ last' = Op("read", h, handles[h].T, 0, i, 0, Index(mem, Deref(h), handles[h].T, i))
    /\ calls' = <<>>
    /\ UNCHANGED <<handles, blocks, mem>>

\* handle[i] = x: DerefMut::deref_mut, then the slice's bounds-checked index
Write(h, i, x) ==
    /\ handles[h].state = "Owning"
    /\ LET w == IndexMut(mem, DerefMut(h), handles[h].T, i, x)
       IN /\ mem' = w.mem
          /\ last' = Op("write", h, handles[h].T, 0, i, x, w.res)
    /\ calls' = <<>>
    /\ UNCHANGED <<handles, blocks>>

\* ---------------------------------------------------------------- specification
Next ==
    \/ \E h \in Handles, T \in Types, len \in Lens, a \in Allocators :
          NewUninitIn(h, T, len, a)
    \/ \E h \in Handles, T \in Types, len \in Lens, a \in Allocators :
          \E value \in ValuesOf(T) : NewIn(h, T, len, value, a)
    \/ \E h \in Handles : Drop(h)
    \/ \E h \in Handles, i \in Indices : Read(h, i)
    \/ \E h \in Handles, i \in Indices : \E x \in ValuesOf(handles[h].T) : Write(h, i, x)

Spec == Init /\ [][Next]_vars

\* ---------------------------------------------------------------- properties
Ctors == {"new_uninit_in", "new_in"}
Accesses == {"read", "write"}
ArrayLayout(T, len) == [ok |-> TRUE, size |-> len * SizeOf(T), align |-> AlignOf(T)]
Overflows(T, len) == len * SizeOf(T) > ISizeMax

\* C1: a handle's region is handed back exactly once, by its drop, to the
\* allocator it was constructed with, with the pointer allocate returned and
\* the layout allocate was given (len * size_of(T), align_of(T)); the layout
\* computed in drop never fails.
ReleaseMatchesAllocation ==
    [][\A h \in Handles :
         /\ handles'[h].deallocs = IF handles'[h].state = "Released" THEN 1 ELSE 0
         /\ (handles[h].state = "Unconstructed" /\ handles'[h].state = "Owning") =>
               /\ calls' = <<Call("allocate", handles'[h].ctorAllocator, handles'[h].region.ptr,
                                  handles'[h].allocLayout, TRUE)>>
               /\ handles'[h].allocLayout = ArrayLayout(handles'[h].T, handles'[h].ctorLen)
               /\ handles'[h].ctorAllocator = last'.a /\ handles'[h].ctorLen = last'.i
         /\ (handles[h].state = "Owning" /\ handles'[h].state = "Released") =>
               /\ last'.op = "drop" /\ last'.h = h /\ last'.result.kind = "ok"
               /\ calls' = <<Call("deallocate", handles[h].ctorAllocator, handles[h].region.ptr,
                                  handles[h].allocLayout, TRUE)>>
         /\ (\E k \in 1..Len(calls') : calls'[k].fn = "deallocate" /\ last'.h = h) =>
               handles[h].state = "Owning" /\ handles'[h].state = "Released"
      ]_vars

ReleaseMatchesAllocationWitness ==
    /\ last.op = "drop" /\ last.result.kind = "ok" /\ last.T = "u16"
    /\ handles[last.h].state = "Released" /\ handles[last.h].deallocs = 1
    /\ Len(calls) = 1 /\ calls[1].fn = "deallocate" /\ calls[1].layout.size = 2 * SizeOf("u16")

\* C2: right after a successful new_in(len, v, allocator), every index below
\* len of the handle's view reads v.
FilledWithValue ==
    (last.op = "new_in" /\ last.result.kind = "ok") =>
        /\ handles[last.h].state = "Owning"
        /\ \A i \in 0..(last.i - 1) :
              Index(mem, Deref(last.h), last.T, i) = Result("ok", last.x)

FilledWithValueWitness ==
    /\ last.op = "new_in" /\ last.result.kind = "ok"
    /\ last.T = "u16" /\ last.i = 2 /\ last.x = 1801

\* C3: a constructor called with len * size_of(T) above the largest layout
\* size returns AllocError, makes no handle and calls the allocator not at all.
OverflowMakesNoCall ==
    (last.op \in Ctors /\ Overflows(last.T, last.i)) =>
        /\ last.result.kind = "AllocError"
        /\ handles[last.h].state = "Unconstructed"
        /\ calls = <<>>

OverflowMakesNoCallWitness ==
    /\ last.op = "new_uninit_in" /\ last.T = "u16" /\ last.i = ISizeMax \div 2 + 1
    /\ last.result.kind = "AllocError" /\ calls = <<>>

\* C4: when allocate fails, the constructor returns AllocError, no handle
\* exists, nothing is initialised, and no deallocate call is ever made for
\* that construction.
AllocFailureOwnsNothing ==
    [][\A h \in Handles :
         /\ (last'.op \in Ctors /\ last'.h = h /\ Len(calls') = 1 /\ ~calls'[1].ok) =>
               /\ last'.result.kind = "AllocError"
               /\ handles'[h].state = "Unconstructed" /\ handles'[h].called
               /\ mem' = mem /\ blocks' = blocks
         /\ (handles[h].called /\ handles[h].state = "Unconstructed") =>
               /\ handles'[h] = handles[h] /\ handles'[h].deallocs = 0
               /\ (\A k \in 1..Len(calls') : calls'[k].fn = "deallocate" => last'.h # h)
      ]_vars

AllocFailureOwnsNothingWitness ==
    /\ last.op = "new_in" /\ last.result.kind = "AllocError" /\ last.i = 1 /\ last.T = "u16"
    /\ Len(calls) = 1 /\ calls[1].fn = "allocate" /\ ~calls[1].ok
    /\ handles[last.h].state = "Unconstructed" /\ handles[last.h].called

\* C5: on a live handle, a write of x at an index below len succeeds and a
\* read of that index then returns x, whatever was written before.
WriteThenRead ==
    (last.op = "write" /\ last.i < handles[last.h].ctorLen /\ handles[last.h].state = "Owning") =>
        /\ last.result.kind = "ok"
        /\ Index(mem, Deref(last.h), last.T, last.i) = Result("ok", last.x)

WriteThenReadWitness ==
    /\ last.op = "write" /\ last.result.kind = "ok" /\ handles[last.h].state = "Owning"
    /\ last.T = "u16" /\ last.i = 1 /\ last.x = 1801
    /\ Index(mem, Deref(last.h), last.T, 0) = Result("ok", 7)

\* C6: a read or write at an index at or beyond len panics: it returns no
\* element and leaves every byte of memory as it was.
OutOfBoundsRejected ==
    [][(last'.op \in Accesses /\ last'.i >= handles[last'.h].ctorLen) =>
          /\ last'.result.kind = "panic"
          /\ mem' = mem
      ]_vars

OutOfBoundsRejectedWitness ==
    /\ last.op = "write" /\ last.result.kind = "panic" /\ handles[last.h].state = "Owning"
    /\ last.i = handles[last.h].ctorLen /\ last.T = "u16"
    /\ handles[last.h].region.size >= (handles[last.h].ctorLen + 1) * SizeOf("u16")

\* C7: with len = 0 the constructor makes its allocation request and succeeds
\* if the allocator does; the view is empty; drop makes exactly one deallocate
\* call, with the layout (0, align_of(T)) of the construction.
ZeroLength ==
    [][\A h \in Handles :
         /\ (last'.op \in Ctors /\ last'.h = h /\ last'.i = 0 /\ ~handles[h].called) =>
               /\ Len(calls') = 1
               /\ calls'[1].layout = [ok |-> TRUE, size |-> 0, align |-> AlignOf(last'.T)]
               /\ calls'[1].ok =>
                     /\ last'.result.kind = "ok"
                     /\ handles'[h].state = "Owning"
                     /\ Deref(h)'.len = 0
         /\ (last'.op = "drop" /\ last'.h = h /\ handles[h].state = "Owning"
               /\ handles[h].ctorLen = 0) =>
               /\ calls' = <<Call("deallocate", handles[h].ctorAllocator, handles[h].region.ptr,
                                  [ok |-> TRUE, size |-> 0, align |-> AlignOf(handles[h].T)], TRUE)>>
               /\ handles'[h].deallocs = 1
      ]_vars

ZeroLengthWitness ==
    /\ last.op = "drop" /\ last.T = "u16" /\ handles[last.h].state = "Released"
    /\ Len(calls) = 1 /\ calls[1].fn = "deallocate" /\ calls[1].layout.size = 0
    /\ calls[1].layout.align = 2

\* C8 as stated: every constructor call makes exactly one allocation request,
\* for every len and every allocator outcome.
OneRequestPerCall ==
    (last.op \in Ctors) => (Len(calls) = 1 /\ calls[1].fn = "allocate")

\* C8 amended: a constructor call makes exactly one allocation request, to the
\* allocator it was given, unless len * size_of(T) is above the largest layout
\* size, in which case it makes none.
OneRequestUnlessOverflow ==
    (last.op \in Ctors) =>
        IF Overflows(last.T, last.i)
        THEN calls = <<>>
        ELSE /\ Len(calls) = 1
             /\ calls[1].fn = "allocate" /\ calls[1].allocator = last.a
             /\ calls[1].layout = ArrayLayout(last.T, last.i)

OneRequestUnlessOverflowWitness ==
    /\ last.op = "new_uninit_in" /\ last.T = "u16" /\ last.i = ISizeMax \div 2
    /\ Len(calls) = 1 /\ calls[1].fn = "allocate" /\ ~calls[1].ok

\* C9: a handle goes Unconstructed -> Owning -> Released and nowhere else:
\* Owning is entered by a successful constructor call only, left by drop only,
\* every drop releases, Released is final, and a released handle sees no
\* further read, write or release.
Lifecycle ==
    [][\A h \in Handles :
         /\ (handles[h].state = "Unconstructed" /\ handles'[h].state # "Unconstructed") =>
               /\ handles'[h].state = "Owning"
               /\ last'.op \in Ctors /\ last'.h = h /\ last'.result.kind = "ok"
         /\ (handles[h].state = "Owning" /\ handles'[h].state # "Owning") =>
               /\ handles'[h].state = "Released"
               /\ last'.op = "drop" /\ last'.h = h
         /\ (last'.op = "drop" /\ last'.h = h) => handles'[h].state = "Released"
         /\ (handles[h].state = "Released") =>
               /\ handles'[h] = handles[h]
               /\ last'.h = h => last' = last
               /\ \A k \in 1..Len(calls') : calls'[k].fn = "deallocate" => last'.h # h
         /\ handles'[h].deallocs <= 1
      ]_vars

LifecycleWitness ==
    \E h \in Handles :
        /\ handles[h].state = "Released" /\ handles[h].deallocs = 1
        /\ last.op = "drop" /\ last.h = h /\ calls # <<>>

\* C10: while a handle is live, the length of its views is the len its
\* constructor was given, whatever the size of the region allocate returned.
LengthIsConstructorLen ==
    \A h \in Handles :
        handles[h].state = "Owning" =>
            /\ Deref(h).len = handles[h].ctorLen
            /\ DerefMut(h).len = handles[h].ctorLen

LengthIsConstructorLenWitness ==
    \E h \in Handles :
        /\ handles[h].state = "Owning" /\ handles[h].T = "u16" /\ handles[h].ctorLen = 1
        /\ handles[h].region.size = 2 * SizeOf("u16")
        /\ last.op = "write" /\ last.h = h /\ last.result.kind = "ok"

====
